---- MODULE Spec2Model ----
(***************************************************************************)
(* Neuro-Symbolic story engine: the Selector (selectNextEvent), the        *)
(* constraint layer (GLOBAL_CONSTRAINTS), the trajectory lookup            *)
(* (getMatrixForStep) and the Execution Coordinator (runNeuroLoop,         *)
(* runComparisonProtocol, handleReset, handleFileUpload) of App.           *)
(*                                                                         *)
(* Probabilities are exact rationals.  A matrix row is a function from     *)
(* labels to natural weights and the probability of a label is its weight  *)
(* over the row total.  An adjusted weight is kept as a numerator over the *)
(* denominator ScaleDen * RowTotal(row).                                   *)
(***************************************************************************)
EXTENDS Integers, Sequences, FiniteSets, TLC

\* ------------------------------------------------------------------------
\* Bounds of the model
\* ------------------------------------------------------------------------
\* Largest story length the operator can set (the program starts at 15).
MaxStoryLength == 3

\* Largest number of segment slots in a corpus the enumerated datasets hold.
MaxCorpusSegments == 3
\* The largest probability of a row entry of a Selector call, in tenths.
MaxRowWeight == 8

\* The story length of the long run: the least length at which the position
\* before the last has progress 0.9.
LongStoryLength == 20

\* ------------------------------------------------------------------------
\* Event alphabet (types.ts) and constraint table (constants.ts)
\* ------------------------------------------------------------------------
EVENT_TYPES ==
  << "Introduction", "Inciting_Incident", "Rising_Action", "Conflict",
     "Revelation", "Climax", "Falling_Action", "Resolution", "Story_End",
     "Dialogue", "Description" >>

EventType == { EVENT_TYPES[i] : i \in 1..Len(EVENT_TYPES) }

\* JavaScript's undefined, for an absent label or an absent constraint field.
Undefined == "undefined"

\* An optional numeric field is the empty set when the source leaves it out
\* and a singleton otherwise; minStepProgress is in hundredths (0.05 is 5).
GLOBAL_CONSTRAINTS ==
  [ Introduction      |-> [maxOccurrences |-> {1}, minStepProgress |-> {},
                           cooldown |-> {0}, requiresEvent |-> Undefined],
    Inciting_Incident |-> [maxOccurrences |-> {1}, minStepProgress |-> {5},
                           cooldown |-> {}, requiresEvent |-> Undefined],
    Rising_Action     |-> [maxOccurrences |-> {}, minStepProgress |-> {},
                           cooldown |-> {1}, requiresEvent |-> "Inciting_Incident"],
    Conflict          |-> [maxOccurrences |-> {}, minStepProgress |-> {},
                           cooldown |-> {0}, requiresEvent |-> "Rising_Action"],
    Revelation        |-> [maxOccurrences |-> {1}, minStepProgress |-> {40},
                           cooldown |-> {}, requiresEvent |-> "Rising_Action"],
    Climax            |-> [maxOccurrences |-> {1}, minStepProgress |-> {60},
                           cooldown |-> {}, requiresEvent |-> "Conflict"],
    Falling_Action    |-> [maxOccurrences |-> {}, minStepProgress |-> {70},
                           cooldown |-> {}, requiresEvent |-> "Climax"],
    Resolution        |-> [maxOccurrences |-> {1}, minStepProgress |-> {80},
                           cooldown |-> {}, requiresEvent |-> "Climax"],
    Story_End         |-> [maxOccurrences |-> {1}, minStepProgress |-> {90},
                           cooldown |-> {}, requiresEvent |-> "Resolution"],
    Dialogue          |-> [maxOccurrences |-> {}, minStepProgress |-> {},
                           cooldown |-> {0}, requiresEvent |-> Undefined],
    Description       |-> [maxOccurrences |-> {}, minStepProgress |-> {},
                           cooldown |-> {2}, requiresEvent |-> Undefined] ]

TRAJECTORY_BINS == 20
MAX_RETRIES == 2

\* Denominator of minStepProgress and of the bin clamp 0.99.
ProgressDen == 100
\* Adjusted weights are numerators over ScaleDen * RowTotal: the cooldown
\* factor 0.1 and the self-loop factor 0.3 are tenths, applied at most once each.
ScaleDen == 100
COOLDOWN_FACTOR == 1
SELF_LOOP_FACTOR == 3
FactorDen == 10
\* totalWeight <= 0.0001 is totalWeight * EpsilonDen <= 1.
EpsilonDen == 10000

\* ------------------------------------------------------------------------
\* Matrices
\* ------------------------------------------------------------------------
RECURSIVE SumRow(_, _)
SumRow(row, i) ==
  IF i = 0 THEN 0 ELSE row[EVENT_TYPES[i]] + SumRow(row, i - 1)

RowTotal(row) == SumRow(row, Len(EVENT_TYPES))

\* createRow: every missing label gets the default 0.01; weights are in
\* hundredths and the row is divided by its total (kept as RowTotal).
createRow(weights) ==
  [ e \in EventType |-> IF e \in DOMAIN weights THEN weights[e] ELSE 1 ]

GENERIC_MATRIX ==
  [ Introduction      |-> createRow([Inciting_Incident |-> 50, Description |-> 40, Dialogue |-> 10]),
    Inciting_Incident |-> createRow([Rising_Action |-> 70, Conflict |-> 30]),
    Rising_Action     |-> createRow([Conflict |-> 50, Dialogue |-> 30, Revelation |-> 20]),
    Conflict          |-> createRow([Climax |-> 30, Rising_Action |-> 40, Revelation |-> 30]),
    Revelation        |-> createRow([Conflict |-> 50, Climax |-> 50]),
    Climax            |-> createRow([Falling_Action |-> 90, Resolution |-> 10]),
    Falling_Action    |-> createRow([Resolution |-> 90, Story_End |-> 10]),
    Resolution        |-> createRow([Story_End |-> 90, Dialogue |-> 10]),
    Story_End         |-> createRow([Story_End |-> 100]),
    Dialogue          |-> createRow([Conflict |-> 30, Rising_Action |-> 30, Revelation |-> 10]),
    Description       |-> createRow([Inciting_Incident |-> 30, Dialogue |-> 30]) ]

DEFAULT_TRAJECTORY == [ b \in 1..TRAJECTORY_BINS |-> GENERIC_MATRIX ]

\* A row given only by its non-zero weights.
SparseRow(weights) ==
  [ e \in EventType |-> IF e \in DOMAIN weights THEN weights[e] ELSE 0 ]

\* The matrix of a saved model file.  Every row is a probability row (its
\* weights over their total sum to 1), but the mass sits on labels the
\* constraint layer gates: after Introduction the row keeps 0.00005 on
\* Dialogue, every other row has all its mass on Climax.
SAVED_MATRIX ==
  [ e \in EventType |->
      IF e = "Introduction"
        THEN SparseRow([Introduction |-> 19999, Dialogue |-> 1])
        ELSE SparseRow([Climax |-> 1]) ]

\* A saved trajectory with a single bin.
SAVED_TRAJECTORY == << SAVED_MATRIX >>

\* ------------------------------------------------------------------------
\* Archetype mining (trainModelFromDataset)
\* ------------------------------------------------------------------------
VARIABLE mine  \* the upload job: the locals of trainModelFromDataset

SAMPLE_LIMIT == 30
TARGET_STEPS_PER_STORY == 15
\* discoveredPaths keeps the first TOP_PATHS entries after the sort.
TOP_PATHS == 15
\* percentage = count / storiesToProcess.length * PERCENT.
PERCENT == 100

\* A story is the sequence of its segment slots, slot k being step k - 1 of
\* the step loop; the slots past its end are empty segments.  A slot is
\* "short" (fewer than 10 characters, skipped), "error" (callOllama or the
\* parse of its answer throws), "Hallucinated" (an answer outside the
\* alphabet) or the label the classifier answers.
SegmentKinds == { "short", "error", "Hallucinated", "Conflict" }

\* A record without a text field: story.text.match throws a TypeError.
NoTextRecord == << "no-text" >>

\* binIndex = floor((step / TARGET_STEPS_PER_STORY) * TRAJECTORY_BINS)
binOfStep(step) == (step * TRAJECTORY_BINS) \div TARGET_STEPS_PER_STORY

\* The job before a dataset is uploaded.  storiesToProcess is the sample,
\* i the story of the outer loop (1-based), step the slot of the inner loop,
\* pathFrequency the entries of the object in insertion order, binTransitions
\* the counted transitions <<bin, from, to>> in the order they were counted,
\* corpusSize the length of the uploaded array, result the object the last
\* completed mining resolved with.
NoResult ==
  [ binTransitions |-> << >>, count |-> 0, discoveredPaths |-> << >> ]

IdleMine ==
  [ pc |-> "idle", storiesToProcess |-> << >>, corpusSize |-> 0,
    i |-> 1, step |-> 0, currentPath |-> << >>,
    previousEvent |-> "Introduction", pathFrequency |-> << >>,
    binTransitions |-> << >>, result |-> NoResult ]

\* pathFrequency[pathKey] = (pathFrequency[pathKey] || 0) + 1.  The key is
\* currentPath.join(','): labels hold no comma, so two paths share a key
\* exactly when they are equal and the key is kept as the path itself.
countPath(pathFrequency, path) ==
  IF \E k \in 1..Len(pathFrequency) : pathFrequency[k].key = path
    THEN [ k \in 1..Len(pathFrequency) |->
             IF pathFrequency[k].key = path
               THEN [pathFrequency[k] EXCEPT !.count = @ + 1]
               ELSE pathFrequency[k] ]
    ELSE Append(pathFrequency, [key |-> path, count |-> 1])

\* pathStr.split(','): the key of the empty path is "" and "".split(',') is
\* [""], a sequence of one empty string.
splitKey(key) == IF key = << >> THEN << "" >> ELSE key

\* The entry of one key, before the sort: id is the index in insertion order.
pathEntry(pathFrequency, k, sampleSize) ==
  [ id         |-> "path-" \o ToString(k - 1),
    sequence   |-> splitKey(pathFrequency[k].key),
    frequency  |-> pathFrequency[k].count,
    percentage |-> [num |-> pathFrequency[k].count * PERCENT, den |-> sampleSize] ]

\* Array.prototype.sort((a, b) => b.frequency - a.frequency): stable, so
\* entries of equal frequency keep their insertion order.
RECURSIVE insertByFrequency(_, _)
insertByFrequency(sorted, entry) ==
  IF sorted = << >> THEN << entry >>
  ELSE IF Head(sorted).frequency >= entry.frequency
         THEN << Head(sorted) >> \o insertByFrequency(Tail(sorted), entry)
         ELSE << entry >> \o sorted

RECURSIVE sortByFrequency(_, _)
sortByFrequency(entries, n) ==
  IF n = 0 THEN << >>
  ELSE insertByFrequency(sortByFrequency(entries, n - 1), entries[n])

\* Variant that keeps the insertion order.
discoveredPathsOfUnsorted(pathFrequency, sampleSize) ==
  LET entries == [ k \in 1..Len(pathFrequency) |->
                     pathEntry(pathFrequency, k, sampleSize) ]
  IN  SubSeq(entries, 1, IF Len(entries) < TOP_PATHS THEN Len(entries) ELSE TOP_PATHS)

\* Object.entries(pathFrequency).map(...).sort(...).slice(0, 15)
discoveredPathsOf(pathFrequency, sampleSize) ==
  LET entries == [ k \in 1..Len(pathFrequency) |->
                     pathEntry(pathFrequency, k, sampleSize) ]
      sorted  == sortByFrequency(entries, Len(entries))
  IN  SubSeq(sorted, 1, IF Len(sorted) < TOP_PATHS THEN Len(sorted) ELSE TOP_PATHS)

\* The counted transitions from -> to of bin b.
transitionCount(binTransitions, b, from, to) ==
  Cardinality({ k \in 1..Len(binTransitions) : binTransitions[k] = << b, from, to >> })

\* learnedTrajectory: every row is Laplace smoothed, (count + 1) over
\* (total + EVENT_TYPES.length); the weight is count + 1 and its RowTotal is
\* the smoothed total.
learnedTrajectory(binTransitions) ==
  [ b \in 1..TRAJECTORY_BINS |->
      [ from \in EventType |->
          [ to \in EventType |->
              transitionCount(binTransitions, b - 1, from, to) + 1 ] ] ]

\* The resolve of trainModelFromDataset.
finishMining(m) ==
  [ m EXCEPT !.pc = "done",
             !.result =
               [ binTransitions  |-> m.binTransitions,
                 count           |-> Len(m.storiesToProcess),
                 discoveredPaths |-> discoveredPathsOf(m.pathFrequency,
                                                       Len(m.storiesToProcess)) ] ]

\* The outer and inner loops up to the next await of callOllama: enter a
\* story (a record without text throws), skip its short and empty segments,
\* store the path of a finished story, resolve after the last story.
RECURSIVE advance(_)
advance(m) ==
  IF m.i > Len(m.storiesToProcess) THEN finishMining(m)
  ELSE LET story == m.storiesToProcess[m.i]
       IN  IF story = NoTextRecord THEN [m EXCEPT !.pc = "failed"]
           ELSE IF m.step >= TARGET_STEPS_PER_STORY \/ m.step >= Len(story)
             THEN advance([m EXCEPT !.pathFrequency = countPath(@, m.currentPath),
                                    !.i = @ + 1, !.step = 0,
                                    !.currentPath = << >>,
                                    !.previousEvent = "Introduction"])
           ELSE IF story[m.step + 1] = "short"
             THEN advance([m EXCEPT !.step = @ + 1])
           ELSE [m EXCEPT !.pc = "classify"]

\* Variant whose catch block drops the segment.
classifiedDroppingErrors(m, answer) ==
  IF answer = "error"
    THEN m
    ELSE LET predictedEvent == IF answer \in EventType THEN answer ELSE "Description"
         IN  [ m EXCEPT !.binTransitions =
                           Append(@, << binOfStep(m.step), m.previousEvent, predictedEvent >>),
                        !.previousEvent = predictedEvent,
                        !.currentPath = Append(@, predictedEvent) ]

\* The try block of one segment: an answer outside the alphabet becomes
\* Description, the transition is counted and previousEvent advances; the
\* catch block only pushes Rising_Action onto the path.
classified(m, answer) ==
  IF answer = "error"
    THEN [ m EXCEPT !.currentPath = Append(@, "Rising_Action") ]
    ELSE LET predictedEvent == IF answer \in EventType THEN answer ELSE "Description"
         IN  [ m EXCEPT !.binTransitions =
                           Append(@, << binOfStep(m.step), m.previousEvent, predictedEvent >>),
                        !.previousEvent = predictedEvent,
                        !.currentPath = Append(@, predictedEvent) ]

\* The array check and the sample: data.slice(0, SAMPLE_LIMIT).
startMining(m, data) ==
  IF ~data.isArray \/ Len(data.stories) = 0
    THEN [m EXCEPT !.pc = "invalid"]
    ELSE advance([ IdleMine EXCEPT
                     !.result = m.result,
                     !.corpusSize = Len(data.stories),
                     !.storiesToProcess =
                       SubSeq(data.stories, 1,
                              IF Len(data.stories) < SAMPLE_LIMIT
                                THEN Len(data.stories) ELSE SAMPLE_LIMIT) ])

\* The trajectory models the application can hold, by name.
\* "LEARNED" is the trajectory the last completed mining resolved with,
\* "MALFORMED" a truthy value of a saved file that is no trajectory (an
\* empty array).
TrajectoryIds == { "DEFAULT", "SAVED", "LEARNED", "MALFORMED" }

TrajectoryOf(id) ==
  CASE id = "DEFAULT"   -> DEFAULT_TRAJECTORY
    [] id = "SAVED"     -> SAVED_TRAJECTORY
    [] id = "LEARNED"   -> learnedTrajectory(mine.result.binTransitions)
    [] id = "MALFORMED" -> << >>

\* getMatrixForStep: progress = min(0.99, max(0, step / total)), bin =
\* floor(progress * TRAJECTORY_BINS), trajectory[bin] || trajectory[0].
\* Sequences are 1-based, so bin b is element b + 1.
binIndexOf(currentStepIndex, totalSteps) ==
  IF ProgressDen * currentStepIndex >= 99 * totalSteps
    THEN (99 * TRAJECTORY_BINS) \div ProgressDen
    ELSE (currentStepIndex * TRAJECTORY_BINS) \div totalSteps

getMatrixForStep(currentStepIndex, totalSteps, trajectory) ==
  IF totalSteps <= 0 THEN trajectory[1]
  ELSE LET binIndex == binIndexOf(currentStepIndex, totalSteps)
       IN  IF binIndex + 1 \in DOMAIN trajectory
             THEN trajectory[binIndex + 1]
             ELSE trajectory[1]

\* ------------------------------------------------------------------------
\* Constraint layer and Selector (selectNextEvent)
\* ------------------------------------------------------------------------
\* history.some(s => s.selectedEvent === e)
HasEvent(history, e) ==
  \E i \in 1..Len(history) : history[i].selectedEvent = e

\* history.filter(s => s.selectedEvent === e).length
CountEvent(history, e) ==
  Cardinality({ i \in 1..Len(history) : history[i].selectedEvent = e })

\* [...history].reverse().findIndex(s => s.selectedEvent === e): the distance
\* of the most recent occurrence from the end of the history, -1 if none.
lastOccurrenceIndex(history, e) ==
  IF ~HasEvent(history, e) THEN -1
  ELSE LET last == CHOOSE i \in 1..Len(history) :
                     /\ history[i].selectedEvent = e
                     /\ \A j \in (i + 1)..Len(history) : history[j].selectedEvent # e
       IN  Len(history) - last

\* A hard gate closes: requiresEvent unmet, maxOccurrences reached, or
\* progress = stepIndex / totalLength below minStepProgress.
RequirementUnmet(event, history) ==
  LET c == GLOBAL_CONSTRAINTS[event]
  IN  c.requiresEvent # Undefined /\ ~HasEvent(history, c.requiresEvent)

OccurrencesExhausted(event, history) ==
  LET c == GLOBAL_CONSTRAINTS[event]
  IN  \E m \in c.maxOccurrences : CountEvent(history, event) >= m

TooEarly(event, stepIndex, totalLength) ==
  LET c == GLOBAL_CONSTRAINTS[event]
  IN  \E m \in c.minStepProgress : stepIndex * ProgressDen < m * totalLength

\* Variant whose cooldown also covers the position c + 1 back.
InCooldownInclusive(event, history) ==
  LET c == GLOBAL_CONSTRAINTS[event]
      idx == lastOccurrenceIndex(history, event)
  IN  \E cd \in c.cooldown : idx # -1 /\ idx <= cd

InCooldown(event, history) ==
  LET c == GLOBAL_CONSTRAINTS[event]
      idx == lastOccurrenceIndex(history, event)
  IN  \E cd \in c.cooldown : idx # -1 /\ idx < cd

\* Variant without the self-loop dampening.
SelfLoopNumUndamped(event, prevEvent) == FactorDen

\* The multiplier of the self loop, in tenths.
SelfLoopNum(event, prevEvent) ==
  IF event = prevEvent THEN SELF_LOOP_FACTOR ELSE FactorDen

\* The multiplier of the cooldown, in tenths.
CooldownNum(event, history) ==
  IF InCooldown(event, history) THEN COOLDOWN_FACTOR ELSE FactorDen

\* modifiedProb of one entry, as a numerator over ScaleDen * RowTotal(row).
modifiedProb(row, event, prevEvent, stepIndex, totalLength, history) ==
  IF \/ RequirementUnmet(event, history)
     \/ OccurrencesExhausted(event, history)
     \/ TooEarly(event, stepIndex, totalLength)
    THEN 0
    ELSE row[event] * CooldownNum(event, history) * SelfLoopNum(event, prevEvent)

\* The unadjusted probability of an entry over the same denominator.
originalProb(row, event) == row[event] * ScaleDen

\* entries after the map: the adjusted numerator of every label.
adjustedEntries(row, prevEvent, stepIndex, totalLength, history) ==
  [ e \in EventType |->
      modifiedProb(row, e, prevEvent, stepIndex, totalLength, history) ]

\* entries.reduce((sum, [, prob]) => sum + prob, 0)
totalWeight(entries) == RowTotal(entries)

\* totalWeight <= 0.0001, with totalWeight = total / (ScaleDen * rowTotal).
BelowEpsilon(total, rowTotal) ==
  total * EpsilonDen <= ScaleDen * rowTotal

\* Variant that always answers the safety label.
fallbackEventSafetyOnly(entries) == "Rising_Action"

\* entries.find(([, p]) => p > 0) over the adjusted entries, in alphabet
\* order, else the safety label Rising_Action.
fallbackEvent(entries) ==
  IF \E i \in 1..Len(EVENT_TYPES) : entries[EVENT_TYPES[i]] > 0
    THEN EVENT_TYPES[CHOOSE i \in 1..Len(EVENT_TYPES) :
                       /\ entries[EVENT_TYPES[i]] > 0
                       /\ \A j \in 1..(i - 1) : entries[EVENT_TYPES[j]] <= 0]
    ELSE "Rising_Action"

\* The cumulative adjusted weight of the first i labels.
cumulative(entries, i) == SumRow(entries, i)

\* The inverse-CDF loop: the first label with r <= cumulative / total, the
\* last label if none.  r is the rational r[1] / r[2].
sampleEvent(entries, r) ==
  LET total == totalWeight(entries)
      hit(i) == r[1] * total <= r[2] * cumulative(entries, i)
  IN  IF \E i \in 1..Len(EVENT_TYPES) : hit(i)
        THEN EVENT_TYPES[CHOOSE i \in 1..Len(EVENT_TYPES) :
                           hit(i) /\ \A j \in 1..(i - 1) : ~hit(j)]
        ELSE EVENT_TYPES[Len(EVENT_TYPES)]

\* PRIORITY 2 of selectNextEvent: the Markov (Dynamic) mode.
dynamicSelect(stepIndex, prevEvent, trajectory, totalLength, history, r) ==
  LET matrix  == getMatrixForStep(stepIndex, totalLength, trajectory)
      row     == matrix[prevEvent]
      entries == adjustedEntries(row, prevEvent, stepIndex, totalLength, history)
  IN  IF BelowEpsilon(totalWeight(entries), RowTotal(row))
        THEN fallbackEvent(entries)
        ELSE sampleEvent(entries, r)

\* No archetype selected (activeArchetype === null).
NoArchetype == [id |-> "null", sequence |-> << >>]

\* activeArchetype.sequence[i] of JavaScript (0-based), undefined past the end.
sequenceAt(archetype, i) ==
  IF i + 1 \in DOMAIN archetype.sequence THEN archetype.sequence[i + 1] ELSE Undefined

\* A JavaScript value is truthy: neither undefined nor the empty string.
Truthy(v) == v # Undefined /\ v # ""

\* Variant without the archetype mode (the selector of the first App version).
selectNextEventMarkovOnly(stepIndex, prevEvent, trajectory, totalLength, history, archetype, r) ==
  dynamicSelect(stepIndex, prevEvent, trajectory, totalLength, history, r)

\* PRIORITY 1 of selectNextEvent: the archetype entry when it is truthy.
selectNextEvent(stepIndex, prevEvent, trajectory, totalLength, history, archetype, r) ==
  IF archetype # NoArchetype /\ Truthy(sequenceAt(archetype, stepIndex))
    THEN sequenceAt(archetype, stepIndex)
    ELSE dynamicSelect(stepIndex, prevEvent, trajectory, totalLength, history, r)

\* The selectNextEvent of the first App version (src/App.tsx): no
\* constraints, the self loop is halved, the row is normalized and sampled.
\* entries is Object.entries(transitionRow), a sequence of <<event, prob>>
\* with prob in tenths; the weights are kept in twentieths.
APP_SELF_LOOP_DEN == 2

\* Variant without the self-loop penalty.
weightedEntriesUnpenalized(entries, prevEvent) ==
  [ i \in 1..Len(entries) |-> entries[i][2] * APP_SELF_LOOP_DEN ]

\* event === prevEvent ? prob * 0.5 : prob
weightedEntries(entries, prevEvent) ==
  [ i \in 1..Len(entries) |->
      IF entries[i][1] = prevEvent THEN entries[i][2]
                                   ELSE entries[i][2] * APP_SELF_LOOP_DEN ]

\* The sum of the first i weights.
RECURSIVE sumWeights(_, _)
sumWeights(weights, i) ==
  IF i = 0 THEN 0 ELSE weights[i] + sumWeights(weights, i - 1)

\* The loop over the normalized entries: r <= cumulative with cumulative the
\* sum of prob / totalWeight.  With totalWeight = 0 every normalized prob is
\* NaN, no comparison holds and the last entry is returned.
selectNextEventApp(entries, prevEvent, r) ==
  LET weights == weightedEntries(entries, prevEvent)
      total   == sumWeights(weights, Len(weights))
      hit(i)  == total > 0 /\ r[1] * total <= r[2] * sumWeights(weights, i)
  IN  IF \E i \in 1..Len(entries) : hit(i)
        THEN entries[CHOOSE i \in 1..Len(entries) :
                       hit(i) /\ \A j \in 1..(i - 1) : ~hit(j)][1]
        ELSE entries[Len(entries)][1]

\* Variant whose comparison is prob >= maxProb: the latest of the largest
\* entries stays.
likelyEventLast(row) ==
  EVENT_TYPES[CHOOSE i \in 1..Len(EVENT_TYPES) :
                /\ \A j \in 1..Len(EVENT_TYPES) : row[EVENT_TYPES[j]] <= row[EVENT_TYPES[i]]
                /\ \A j \in (i + 1)..Len(EVENT_TYPES) : row[EVENT_TYPES[j]] < row[EVENT_TYPES[i]]]

\* The forEach of getMostLikelyNextEvent: maxProb starts at -1 and only a
\* strictly larger probability replaces it, so the earliest of the largest
\* entries stays.  The entries of a row share its total.
likelyEvent(row) ==
  EVENT_TYPES[CHOOSE i \in 1..Len(EVENT_TYPES) :
                /\ \A j \in 1..Len(EVENT_TYPES) : row[EVENT_TYPES[j]] <= row[EVENT_TYPES[i]]
                /\ \A j \in 1..(i - 1) : row[EVENT_TYPES[j]] < row[EVENT_TYPES[i]]]

\* getMostLikelyNextEvent: with an archetype the next entry of its sequence,
\* else undefined at the last position and the most likely label of the
\* next position's row.
getMostLikelyNextEvent(stepIndex, currentEvent, trajectory, totalLength, archetype) ==
  IF archetype # NoArchetype THEN sequenceAt(archetype, stepIndex + 1)
  ELSE IF stepIndex >= totalLength - 1 THEN Undefined
  ELSE likelyEvent(getMatrixForStep(stepIndex + 1, totalLength, trajectory)[currentEvent])

\* ------------------------------------------------------------------------
\* Inputs of the environment
\* ------------------------------------------------------------------------
\* Math.random() returns a rational in [0, 1), 0 included; r is <<num, den>>.
RandomDraws == { <<0, 1>>, <<1, 2>>, <<3, 5>>, <<99, 100>> }

\* What generateStorySegment resolves to at the k-th attempt of a position:
\* the empty string or a text of its own.
GeneratedTexts == << "text-1", "text-2", "text-3", "text-4" >>
GeneratorResults(k) == { "", GeneratedTexts[k] }

\* What the verifier model answers: a match, a mismatch, or a failed call.
VerifierResponses == { "match", "mismatch", "error" }

\* verifySegment: the parsed answer, or {verified: true, confidence: 0.5}
\* from its catch block when the call or the parse fails.  Confidence is in
\* tenths.
verifySegment(response) ==
  IF response = "error" THEN [verified |-> TRUE, confidence |-> 5]
  ELSE IF response = "match" THEN [verified |-> TRUE, confidence |-> 9]
  ELSE [verified |-> FALSE, confidence |-> 2]

\* The calls of the Selector on its own.  The first App version gets a row
\* over three labels with probabilities 0..MaxRowWeight tenths, the
\* previous label and the draw; the current selector gets the default
\* model, a history of MaxStoryLength - 1 labels at most and the draw, and
\* selects the position after the history.
SCENARIO_LABELS == << "A", "B", "C" >>

SelectorDraws == RandomDraws \cup { <<9, 10>> }

\* The draws of the long run.
LongRunDraws == { <<3, 5>>, <<9, 10>> }

AppCalls ==
  { [ pc |-> "call", fn |-> "App",
      entries |-> [ i \in 1..Len(SCENARIO_LABELS) |-> << SCENARIO_LABELS[i], p[i] >> ],
      prevEvent |-> SCENARIO_LABELS[k], history |-> << >>, r |-> r, result |-> Undefined ] :
      p \in [ 1..Len(SCENARIO_LABELS) -> 0..MaxRowWeight ],
      k \in 1..Len(SCENARIO_LABELS), r \in SelectorDraws }

DynamicHistories ==
  UNION { { [ i \in 1..n |-> [ selectedEvent |-> IF i = 1 THEN "Introduction" ELSE h[i] ] ] :
              h \in [ 1..n -> { EVENT_TYPES[e] : e \in 1..Len(EVENT_TYPES) } ] } :
          n \in 1..(MaxStoryLength - 1) }

DynamicCalls ==
  { [ pc |-> "call", fn |-> "Dynamic", entries |-> << >>,
      prevEvent |-> h[Len(h)].selectedEvent, history |-> h, r |-> r,
      result |-> Undefined ] :
      h \in DynamicHistories, r \in SelectorDraws }

\* The discovered paths of the dataset statistics a saved model carries.
SAVED_PATHS ==
  << [id |-> "path-0", sequence |-> << "Introduction", "Conflict", "Resolution" >>],
     [id |-> "path-1", sequence |-> << "Dialogue" >>],
     [id |-> "path-2", sequence |-> << "" >>] >>

\* datasetStats by name: null until a model is trained or loaded.
discoveredPaths(stats) ==
  CASE stats = "SAVED_STATS"   -> SAVED_PATHS
    [] stats = "LEARNED_STATS" -> mine.result.discoveredPaths
    [] OTHER                   -> << >>

\* The files the operator can upload as a saved model.
SavedModelFiles ==
  { [type |-> "neuro-symbolic-model", trajectory |-> "SAVED", stats |-> "SAVED_STATS"],
    [type |-> "other", trajectory |-> "SAVED", stats |-> "SAVED_STATS"] }

\* Records that carry the type discriminator and are not saved models: the
\* trajectory is no trajectory, or a field is missing.
MalformedModelFiles ==
  { [type |-> "neuro-symbolic-model", trajectory |-> "MALFORMED", stats |-> "MALFORMED_STATS"],
    [type |-> "neuro-symbolic-model", trajectory |-> Undefined, stats |-> "SAVED_STATS"],
    [type |-> "neuro-symbolic-model", trajectory |-> "SAVED", stats |-> Undefined] }

\* The stories of k slots, and the corpora whose stories hold n slots in all.
Stories(k) ==
  [ 1..k -> SegmentKinds ] \cup (IF k = 1 THEN { NoTextRecord } ELSE {})

RECURSIVE CorporaOfSize(_)
CorporaOfSize(n) ==
  IF n = 0 THEN { << >> }
  ELSE UNION { { << story >> \o rest : story \in Stories(k),
                                      rest \in CorporaOfSize(n - k) } : k \in 1..n }

\* Scenario corpora: 10 stories split 6 / 4 over two sequences, and
\* SAMPLE_LIMIT + 1 stories that all produce one sequence.
SCENARIO_CORPUS ==
  [ k \in 1..10 |-> IF k <= 6 THEN << "Introduction", "Conflict", "Resolution" >>
                             ELSE << "Introduction", "Conflict", "Climax" >> ]

UNIFORM_CORPUS == [ k \in 1..(SAMPLE_LIMIT + 1) |-> << "Conflict" >> ]

\* TOP_PATHS + 1 stories that produce as many different sequences.
MANY_PATHS_CORPUS ==
  [ k \in 1..(TOP_PATHS + 1) |->
      [ j \in 1..(1 + (k - 1) \div 4) |->
          IF j = 1 THEN << "Conflict", "Climax", "Dialogue", "Resolution" >>[1 + ((k - 1) % 4)]
          ELSE "Conflict" ] ]

\* Corpora of one story whose segments the classifier labels with the
\* labels that carry a cooldown and with Inciting_Incident, the label
\* Rising_Action requires: the path mined from such a story is the history
\* of a run that follows it.
HistoryLabels == { "Inciting_Incident", "Rising_Action", "Dialogue", "Description" }

HistoryCorpora ==
  { << story >> : story \in UNION { [ 1..n -> HistoryLabels ] : n \in 1..(MaxStoryLength - 1) } }

\* The parsed datasets the operator can upload: a JSON object that is no
\* array, the empty array, and arrays of story records.
Datasets ==
  { [isArray |-> FALSE, stories |-> << >>] }
    \cup { [isArray |-> TRUE, stories |-> c] :
             c \in { << >>, SCENARIO_CORPUS, UNIFORM_CORPUS, MANY_PATHS_CORPUS }
                     \cup UNION { CorporaOfSize(n) : n \in 1..MaxCorpusSegments } }

\* The datasets that name no usable story: no array, the empty array, and
\* an array whose first record has no text.
RejectedDatasets ==
  { [isArray |-> FALSE, stories |-> << >>],
    [isArray |-> TRUE, stories |-> << >>],
    [isArray |-> TRUE, stories |-> << NoTextRecord >>] }

\* ------------------------------------------------------------------------
\* State
\* ------------------------------------------------------------------------
\* The invocation of runNeuroLoop the single-run specifications start.
RunIds == { 1 }

\* The invocations that can exist at a time: one whose signal is raised and
\* that is still returning from an external call, and the one started after
\* it.
RunSlots == { 1, 2 }

VARIABLES
  isRunning,          \* useState isRunning
  isEvaluating,       \* useState isEvaluating
  steps,              \* useState steps: the visible step history
  storyLength,        \* useState storyLength
  trajectory,         \* useState trajectory, by name
  activeArchetype,    \* useState activeArchetype, NoArchetype for null
  datasetStats,       \* useState datasetStats, by name, "null" for null
  currentEvent,       \* useState currentEvent
  statusMessage,      \* useState statusMessage
  evaluationResult,   \* useState evaluationResult, "null" for null
  abortControllerRef, \* the run whose AbortController the ref holds, {} for null
  run,                \* the locals and closure of every runNeuroLoop invocation
  sel                 \* one call of the Selector on its own: arguments and result

vars == << isRunning, isEvaluating, steps, storyLength, trajectory,
           activeArchetype, datasetStats, currentEvent, statusMessage,
           evaluationResult, abortControllerRef, run, mine, sel >>

\* No call of the Selector on its own.
NoCall == [ pc |-> "none" ]

\* A runNeuroLoop invocation before it is called.  pc is the await it is
\* suspended at; aborted is signal.aborted; archetype, trajectory and
\* storyLength are the values its closure captured; genCalls and verCalls
\* count the generate and verify calls issued for the current position and
\* evalCalls the evaluateStory calls of the run.
IdleRun ==
  [ pc |-> "idle", aborted |-> FALSE, step |-> 0,
    previousEvent |-> "Introduction", generatedSteps |-> << >>,
    nextEvent |-> Undefined, foreshadowEvent |-> Undefined,
    text |-> "", verified |-> FALSE,
    verificationScore |-> 0, retryCount |-> 0,
    archetype |-> NoArchetype, trajectory |-> "DEFAULT", storyLength |-> 0,
    genCalls |-> 0, verCalls |-> 0, evalCalls |-> 0 ]

\* A finished invocation: its locals are gone, its signal stays.
DoneRun(rn) == [ IdleRun EXCEPT !.pc = "done", !.aborted = rn.aborted ]

Init ==
  /\ isRunning = FALSE
  /\ isEvaluating = FALSE
  /\ steps = << >>
  /\ storyLength = MaxStoryLength
  /\ trajectory = "DEFAULT"
  /\ activeArchetype = NoArchetype
  /\ datasetStats = "null"
  /\ currentEvent = "Introduction"
  /\ statusMessage = "System Idle. Ready."
  /\ evaluationResult = "null"
  /\ abortControllerRef = {}
  /\ run = [ r \in RunSlots |-> IdleRun ]
  /\ mine = IdleMine
  /\ sel = NoCall

InFlight(r) == run[r].pc \notin { "idle", "done" }

\* ------------------------------------------------------------------------
\* Operator actions
\* ------------------------------------------------------------------------
\* The start button is shown while nothing runs and no step is displayed.
StartEnabled == ~isRunning /\ Len(steps) = 0

\* The story-length control.
SetStoryLength(n) ==
  /\ UNCHANGED << mine, sel >>
  /\ storyLength' = n
  /\ UNCHANGED << isRunning, isEvaluating, steps, trajectory, activeArchetype,
                  datasetStats, currentEvent, statusMessage, evaluationResult,
                  abortControllerRef, run >>

\* TrainingPanel: pick one of the first five discovered paths, or Dynamic.
SetActiveArchetype(path) ==
  /\ UNCHANGED << mine, sel >>
  /\ \/ path = NoArchetype
     \/ \E i \in 1..Len(discoveredPaths(datasetStats)) :
          i <= 5 /\ path = discoveredPaths(datasetStats)[i]
  /\ activeArchetype' = path
  /\ UNCHANGED << isRunning, isEvaluating, steps, storyLength, trajectory,
                  datasetStats, currentEvent, statusMessage, evaluationResult,
                  abortControllerRef, run >>

\* handleFileUpload of a JSON object: a record with the type discriminator
\* and truthy trajectory and stats fields is restored; an object without a
\* trajectory field goes to runTrainingProcess, which rejects it as no
\* array; anything else is an unknown format.  The upload controls are
\* hidden while a job is training.
HandleFileUpload(file) ==
  /\ UNCHANGED << mine, sel >>
  /\ mine.pc # "classify"
  /\ IF file.type = "neuro-symbolic-model" /\ Truthy(file.trajectory) /\ Truthy(file.stats)
       THEN /\ trajectory' = file.trajectory
            /\ datasetStats' = file.stats
            /\ statusMessage' = "Model Loaded"
       ELSE /\ statusMessage' = IF ~Truthy(file.trajectory)
                                  THEN "Training failed: Invalid format."
                                  ELSE "File Error"
            /\ UNCHANGED << trajectory, datasetStats >>
  /\ UNCHANGED << isRunning, isEvaluating, steps, storyLength, activeArchetype,
                  currentEvent, evaluationResult, abortControllerRef, run >>

\* Variant that shows the transitions counted so far while the miner works.
MiningContinuesShowingProgress(m) ==
  /\ IF m.pc \in { "done", "classify" }
       THEN /\ trajectory' = "LEARNED"
            /\ datasetStats' = IF m.pc = "done" THEN "LEARNED_STATS" ELSE datasetStats
            /\ statusMessage' = IF m.pc = "done" THEN "Training complete." ELSE "Mining"
            /\ mine' = [m EXCEPT !.result = IF m.pc = "done" THEN m.result
                                            ELSE [mine.result EXCEPT
                                                    !.binTransitions = m.binTransitions]]
       ELSE /\ UNCHANGED << trajectory, datasetStats >>
            /\ mine' = [IdleMine EXCEPT !.result = mine.result]
            /\ statusMessage' = IF m.pc = "invalid"
                                  THEN "Training failed: Invalid format."
                                  ELSE "Training failed: TypeError"
  /\ UNCHANGED << isRunning, isEvaluating, steps, storyLength, activeArchetype,
                  currentEvent, evaluationResult, abortControllerRef, run, sel >>

\* The continuation of runTrainingProcess once the miner has reached the
\* state m: wait for the next classifier call, publish the result of a
\* resolved mining, or report the rejection and publish nothing.
MiningContinues(m) ==
  /\ IF m.pc = "done"
       THEN /\ trajectory' = "LEARNED"
            /\ datasetStats' = "LEARNED_STATS"
            /\ statusMessage' = "Training complete."
            /\ mine' = m
       ELSE /\ UNCHANGED << trajectory, datasetStats >>
            /\ IF m.pc = "classify"
                 THEN mine' = m /\ statusMessage' = "Mining"
                 ELSE /\ mine' = [IdleMine EXCEPT !.result = mine.result]
                      /\ statusMessage' = IF m.pc = "invalid"
                                            THEN "Training failed: Invalid format."
                                            ELSE "Training failed: TypeError"
  /\ UNCHANGED << isRunning, isEvaluating, steps, storyLength, activeArchetype,
                  currentEvent, evaluationResult, abortControllerRef, run, sel >>

\* handleFileUpload of a dataset: runTrainingProcess up to the first
\* classifier call.
UploadDataset(data) ==
  /\ mine.pc # "classify"
  /\ MiningContinues(startMining(mine, data))

\* callOllama returns or throws for the segment the miner waits on.
ClassifierReturns ==
  /\ mine.pc = "classify"
  /\ LET answer == mine.storiesToProcess[mine.i][mine.step + 1]
         counted == classified(mine, answer)
     IN  MiningContinues(advance([counted EXCEPT !.step = @ + 1]))

\* trainModelFromDataset from the state m to its resolve or its rejection.
RECURSIVE mineAll(_)
mineAll(m) ==
  IF m.pc # "classify" THEN m
  ELSE LET answer == m.storiesToProcess[m.i][m.step + 1]
           counted == classified(m, answer)
       IN  mineAll(advance([counted EXCEPT !.step = @ + 1]))

\* runTrainingProcess as one step: the miner changes nothing of App before
\* its promise settles.
RunTrainingProcess(data) ==
  /\ mine.pc # "classify"
  /\ MiningContinues(mineAll(startMining(mine, data)))

\* Variant of handleReset that aborts the run but keeps the displayed steps.
HandleResetKeepsSteps ==
  /\ UNCHANGED << mine, sel >>
  /\ run' = [ r \in RunSlots |->
                IF r \in abortControllerRef THEN [run[r] EXCEPT !.aborted = TRUE]
                                            ELSE run[r] ]
  /\ evaluationResult' = "null"
  /\ isRunning' = FALSE
  /\ isEvaluating' = FALSE
  /\ statusMessage' = "System Reset."
  /\ currentEvent' = "Introduction"
  /\ UNCHANGED << steps, storyLength, trajectory, activeArchetype, datasetStats,
                  abortControllerRef >>

\* handleReset: abort the controller the ref holds and clear the display.
\* The handler has no guard of its own: it is the one place that raises the
\* cancellation signal, and it can be invoked while a run is in flight.
HandleReset ==
  /\ UNCHANGED << mine, sel >>
  /\ run' = [ r \in RunSlots |->
                IF r \in abortControllerRef THEN [run[r] EXCEPT !.aborted = TRUE]
                                            ELSE run[r] ]
  /\ steps' = << >>
  /\ evaluationResult' = "null"
  /\ isRunning' = FALSE
  /\ isEvaluating' = FALSE
  /\ statusMessage' = "System Reset."
  /\ currentEvent' = "Introduction"
  /\ UNCHANGED << storyLength, trajectory, activeArchetype, datasetStats,
                  abortControllerRef >>

\* ------------------------------------------------------------------------
\* The Execution Coordinator (runComparisonProtocol, runNeuroLoop)
\* ------------------------------------------------------------------------
\* Variant without the finally block: the running flag is left as it is.
EndWithStatusNoFinally(r, msg) ==
  /\ statusMessage' = msg
  /\ isEvaluating' = FALSE
  /\ run' = [run EXCEPT ![r] = DoneRun(run[r])]
  /\ UNCHANGED << steps, evaluationResult, isRunning >>

\* catch (error) and finally of runNeuroLoop: the run ends with the given
\* status message.
EndWithStatus(r, msg) ==
  /\ statusMessage' = msg
  /\ isEvaluating' = FALSE
  /\ isRunning' = FALSE
  /\ run' = [run EXCEPT ![r] = DoneRun(run[r])]
  /\ UNCHANGED << steps, evaluationResult >>

\* Variant whose retry bound is off by one.
ShouldAttemptOnceMore(rn) == ~rn.verified /\ rn.retryCount <= MAX_RETRIES + 1

\* The while loop of one position: retry while not verified and
\* retryCount <= MAX_RETRIES.
ShouldAttempt(rn) == ~rn.verified /\ rn.retryCount <= MAX_RETRIES

\* The top of the while body: throw "Aborted" when the signal is raised,
\* else call generateStorySegment and wait for it.
AttemptGenerate(r, rn) ==
  IF rn.aborted
    THEN EndWithStatus(r, "Execution aborted.")
    ELSE /\ run' = [run EXCEPT ![r] = [rn EXCEPT !.pc = "generate",
                                                 !.genCalls = @ + 1]]
         /\ UNCHANGED << statusMessage, isEvaluating, isRunning, steps,
                         evaluationResult >>

\* runComparisonProtocol, then runNeuroLoop up to its first await.
StartRun(r) ==
  /\ UNCHANGED << mine, sel >>
  /\ StartEnabled
  /\ ~InFlight(r)
  /\ steps' = << >>
  /\ evaluationResult' = "null"
  /\ currentEvent' = "Introduction"
  /\ abortControllerRef' = { r }
  /\ isRunning' = TRUE
  /\ statusMessage' = "Sys1"
  /\ run' = [run EXCEPT ![r] =
               [IdleRun EXCEPT !.pc = "plan",
                               !.archetype = activeArchetype,
                               !.trajectory = trajectory,
                               !.storyLength = storyLength]]
  /\ UNCHANGED << isEvaluating, storyLength, trajectory, activeArchetype,
                  datasetStats >>

\* matrix[prevEvent] is undefined for a label outside the alphabet and
\* Object.entries(undefined) throws.
selectThrows(stepIndex, prevEvent, archetype) ==
  /\ ~(archetype # NoArchetype /\ Truthy(sequenceAt(archetype, stepIndex)))
  /\ prevEvent \notin EventType

\* Variant that starts every run with Introduction (the first App version).
firstEventFixed(archetype) == "Introduction"

\* The label of position 0.
firstEvent(archetype) ==
  IF archetype # NoArchetype THEN sequenceAt(archetype, 0) ELSE "Introduction"

\* Variant that reads the trajectory state of the latest render.
liveTrajectory(rn) == trajectory

\* The trajectory runNeuroLoop reads: the one its closure captured when the
\* run was started.
closureTrajectory(rn) == rn.trajectory

\* After the planning delay: select the label of the position, reset the
\* attempt locals and enter the while loop.
Plan(r, rnd) ==
  /\ UNCHANGED << mine, sel >>
  /\ run[r].pc = "plan"
  /\ LET rn == run[r]
     IN  IF rn.step > 0 /\ selectThrows(rn.step, rn.previousEvent, rn.archetype)
           THEN /\ EndWithStatus(r, "Error")
                /\ UNCHANGED currentEvent
           ELSE LET ev == IF rn.step = 0
                            THEN firstEvent(rn.archetype)
                            ELSE selectNextEvent(rn.step, rn.previousEvent,
                                                 TrajectoryOf(closureTrajectory(rn)),
                                                 rn.storyLength, rn.generatedSteps,
                                                 rn.archetype, rnd)
                    hint == getMostLikelyNextEvent(rn.step, ev,
                                                   TrajectoryOf(closureTrajectory(rn)),
                                                   rn.storyLength, rn.archetype)
                    planned == [rn EXCEPT !.nextEvent = ev, !.text = "",
                                          !.foreshadowEvent = hint,
                                          !.verified = FALSE,
                                          !.verificationScore = 0,
                                          !.retryCount = 0,
                                          !.genCalls = 0, !.verCalls = 0]
                IN  /\ currentEvent' = ev
                    /\ IF planned.aborted
                         THEN EndWithStatus(r, "Execution aborted.")
                         ELSE /\ statusMessage' = "Sys2"
                              /\ run' = [run EXCEPT ![r] =
                                           [planned EXCEPT !.pc = "generate",
                                                           !.genCalls = @ + 1]]
                              /\ UNCHANGED << isEvaluating, isRunning, steps,
                                              evaluationResult >>
  /\ UNCHANGED << storyLength, trajectory, activeArchetype, datasetStats,
                  abortControllerRef >>

\* generateStorySegment resolves: keep its text and call verifySegment.
GenerateReturns(r, text) ==
  /\ UNCHANGED << mine, sel >>
  /\ run[r].pc = "generate"
  /\ text \in GeneratorResults(run[r].genCalls)
  /\ statusMessage' = "Verifier"
  /\ run' = [run EXCEPT ![r] = [@ EXCEPT !.text = text, !.pc = "verify",
                                         !.verCalls = @ + 1]]
  /\ UNCHANGED << isRunning, isEvaluating, steps, storyLength, trajectory,
                  activeArchetype, datasetStats, currentEvent, evaluationResult,
                  abortControllerRef >>

\* generateStorySegment rejects (no API key, Ollama unreachable).
GenerateThrows(r) ==
  /\ UNCHANGED << mine, sel >>
  /\ run[r].pc = "generate"
  /\ EndWithStatus(r, "Error")
  /\ UNCHANGED << storyLength, trajectory, activeArchetype, datasetStats,
                  currentEvent, abortControllerRef >>

\* Variant that commits the initial, empty segment text.
newStepInitialText(rn) ==
  [ stepIndex |-> rn.step, selectedEvent |-> rn.nextEvent,
    generatedText |-> "", verified |-> rn.verified,
    retryCount |-> rn.retryCount ]

\* The step record of the position just finished.
newStep(rn) ==
  [ stepIndex |-> rn.step, selectedEvent |-> rn.nextEvent,
    generatedText |-> rn.text, verified |-> rn.verified,
    retryCount |-> rn.retryCount ]

\* Variant that evaluates a cancelled run too.
shouldEvaluateAlways(rn) == TRUE

\* if (!signal.aborted) after the for loop.
shouldEvaluate(rn) == ~rn.aborted

\* Leave the while loop: commit the step, advance, and run the loop head of
\* the next position, or the evaluation after the last one.  The locals of
\* the loop body (nextEvent, segmentResult, verified, verificationScore,
\* retryCount) go out of scope with the iteration.
CommitAndAdvance(r, rn) ==
  LET committed == [rn EXCEPT !.generatedSteps = Append(@, newStep(rn)),
                              !.previousEvent = rn.nextEvent,
                              !.step = @ + 1,
                              !.nextEvent = IdleRun.nextEvent,
                              !.foreshadowEvent = IdleRun.foreshadowEvent,
                              !.text = IdleRun.text,
                              !.verified = IdleRun.verified,
                              !.verificationScore = IdleRun.verificationScore,
                              !.retryCount = IdleRun.retryCount,
                              !.genCalls = 0,
                              !.verCalls = 0]
  IN  /\ steps' = Append(steps, newStep(rn))
      /\ UNCHANGED evaluationResult
      /\ IF committed.step < committed.storyLength
           THEN IF committed.aborted
                  THEN /\ isRunning' = FALSE
                       /\ run' = [run EXCEPT ![r] = DoneRun(committed)]
                       /\ UNCHANGED << statusMessage, isEvaluating >>
                  ELSE /\ statusMessage' = "Sys1"
                       /\ run' = [run EXCEPT ![r] = [committed EXCEPT !.pc = "plan"]]
                       /\ UNCHANGED << isRunning, isEvaluating >>
           ELSE IF ~shouldEvaluate(committed)
                  THEN /\ isRunning' = FALSE
                       /\ run' = [run EXCEPT ![r] = DoneRun(committed)]
                       /\ UNCHANGED << statusMessage, isEvaluating >>
                  ELSE /\ statusMessage' = "Running Final Evaluation..."
                       /\ isEvaluating' = TRUE
                       /\ run' = [run EXCEPT ![r] =
                                    [committed EXCEPT !.pc = "evaluate",
                                                      !.evalCalls = @ + 1]]
                       /\ UNCHANGED isRunning

\* verifySegment resolves: a verified attempt commits, a rejected one counts
\* a retry and sleeps.
VerifyReturns(r, response) ==
  /\ UNCHANGED << mine, sel >>
  /\ run[r].pc = "verify"
  /\ LET check == verifySegment(response)
         rn == [run[r] EXCEPT !.verificationScore = check.confidence,
                              !.verified = check.verified]
     IN  IF ~rn.verified
           THEN /\ run' = [run EXCEPT ![r] = [rn EXCEPT !.retryCount = @ + 1,
                                                        !.pc = "retry"]]
                /\ UNCHANGED << statusMessage, isEvaluating, isRunning, steps,
                                evaluationResult >>
           ELSE CommitAndAdvance(r, rn)
  /\ UNCHANGED << storyLength, trajectory, activeArchetype, datasetStats,
                  currentEvent, abortControllerRef >>

\* After the retry delay: the while condition again.
RetryWakes(r) ==
  /\ UNCHANGED << mine, sel >>
  /\ run[r].pc = "retry"
  /\ IF ShouldAttempt(run[r])
       THEN AttemptGenerate(r, run[r])
       ELSE CommitAndAdvance(r, run[r])
  /\ UNCHANGED << storyLength, trajectory, activeArchetype, datasetStats,
                  currentEvent, abortControllerRef >>

\* evaluateStory resolves (it catches its own errors): the run is complete.
EvaluateReturns(r) ==
  /\ UNCHANGED << mine, sel >>
  /\ run[r].pc = "evaluate"
  /\ evaluationResult' = "evaluation"
  /\ isEvaluating' = FALSE
  /\ statusMessage' = "Protocol Complete."
  /\ isRunning' = FALSE
  /\ run' = [run EXCEPT ![r] = DoneRun(run[r])]
  /\ UNCHANGED << steps, storyLength, trajectory, activeArchetype, datasetStats,
                  currentEvent, abortControllerRef >>

\* selectNextEvent of the first App version returns.
AppSelects ==
  /\ sel.pc = "call"
  /\ sel.fn = "App"
  /\ sel' = [sel EXCEPT !.pc = "returned",
                        !.result = selectNextEventApp(sel.entries, sel.prevEvent, sel.r)]
  /\ UNCHANGED << isRunning, isEvaluating, steps, storyLength, trajectory,
                  activeArchetype, datasetStats, currentEvent, statusMessage,
                  evaluationResult, abortControllerRef, run, mine >>

\* selectNextEvent returns for the position after the history, without an
\* archetype.
DynamicSelects ==
  /\ sel.pc = "call"
  /\ sel.fn = "Dynamic"
  /\ sel' = [sel EXCEPT !.pc = "returned",
                        !.result = selectNextEvent(Len(sel.history), sel.prevEvent,
                                                   TrajectoryOf(trajectory), storyLength,
                                                   sel.history, activeArchetype, sel.r)]
  /\ UNCHANGED << isRunning, isEvaluating, steps, storyLength, trajectory,
                  activeArchetype, datasetStats, currentEvent, statusMessage,
                  evaluationResult, abortControllerRef, run, mine >>

\* ------------------------------------------------------------------------
\* Specification
\* ------------------------------------------------------------------------
\* The operator configures the engine while no run is in flight and the
\* display is empty.
Quiescent == Len(steps) = 0 /\ \A r \in RunSlots : ~InFlight(r)

Next ==
  \/ \E n \in 1..MaxStoryLength : Quiescent /\ SetStoryLength(n)
  \/ \E p \in { NoArchetype } \cup { SAVED_PATHS[i] : i \in 1..Len(SAVED_PATHS) } :
       Quiescent /\ SetActiveArchetype(p)
  \/ \E f \in SavedModelFiles : Quiescent /\ HandleFileUpload(f)
  \/ HandleReset
  \/ \E r \in RunIds : StartRun(r)
  \/ \E r \in RunIds, rnd \in RandomDraws : Plan(r, rnd)
  \/ \E r \in RunIds, t \in { "" } \cup { GeneratedTexts[k] : k \in 1..Len(GeneratedTexts) } :
       GenerateReturns(r, t)
  \/ \E r \in RunIds : GenerateThrows(r)
  \/ \E r \in RunIds, v \in VerifierResponses : VerifyReturns(r, v)
  \/ \E r \in RunIds : RetryWakes(r)
  \/ \E r \in RunIds : EvaluateReturns(r)

Spec == Init /\ [][Next]_vars

\* The upload panel alone: the operator loads saved-model records and
\* uploads datasets.  Once a mining has resolved, the datasets uploaded
\* afterwards are ones mining rejects.
NextUpload ==
  \/ \E f \in SavedModelFiles \cup MalformedModelFiles : HandleFileUpload(f)
  \/ \E d \in (IF mine.result = NoResult THEN Datasets ELSE RejectedDatasets) :
       UploadDataset(d)
  \/ ClassifierReturns

UploadSpec == Init /\ [][NextUpload]_vars

\* Runs while the model is replaced: a saved model is loaded or a training
\* completes at any moment of a run.  The generator answers a text and the
\* verifier a match.
NextReplace ==
  \/ \E f \in SavedModelFiles : HandleFileUpload(f)
  \/ RunTrainingProcess([isArray |-> TRUE, stories |-> SCENARIO_CORPUS])
  \/ HandleReset
  \/ \E r \in RunIds : StartRun(r)
  \/ \E r \in RunIds, rnd \in RandomDraws : Plan(r, rnd)
  \/ \E r \in RunIds : GenerateReturns(r, GeneratedTexts[1])
  \/ \E r \in RunIds : VerifyReturns(r, "match")
  \/ \E r \in RunIds : EvaluateReturns(r)

ReplaceSpec == Init /\ [][NextReplace]_vars

\* The Selector after arbitrary histories: the operator mines a one-story
\* corpus, picks the path it discovered as override and starts a run of
\* MaxStoryLength positions; past the end of the path the run selects in
\* Dynamic Mode with the path as its history.
NextSelector ==
  \/ \E c \in HistoryCorpora :
       /\ mine.result = NoResult
       /\ RunTrainingProcess([isArray |-> TRUE, stories |-> c])
  \/ \E i \in 1..Len(discoveredPaths(datasetStats)) :
       Quiescent /\ SetActiveArchetype(discoveredPaths(datasetStats)[i])
  \/ \E r \in RunIds : StartRun(r)
  \/ \E r \in RunIds, rnd \in RandomDraws : Plan(r, rnd)
  \/ \E r \in RunIds : GenerateReturns(r, GeneratedTexts[1])
  \/ \E r \in RunIds : VerifyReturns(r, "match")
  \/ \E r \in RunIds : EvaluateReturns(r)

SelectorSpec == Init /\ [][NextSelector]_vars

\* The training panel alone: the operator picks an override among the
\* displayed paths, loads models and trains new ones.
NextOverride ==
  \/ \E f \in SavedModelFiles : HandleFileUpload(f)
  \/ \E c \in HistoryCorpora \cup { SCENARIO_CORPUS } :
       RunTrainingProcess([isArray |-> TRUE, stories |-> c])
  \/ \E i \in 1..Len(discoveredPaths(datasetStats)) :
       SetActiveArchetype(discoveredPaths(datasetStats)[i])
  \/ SetActiveArchetype(NoArchetype)

OverrideSpec == Init /\ [][NextOverride]_vars

\* One invocation on the default model whose timers fire and whose
\* external calls settle: the planning delay and the retry delay are
\* setTimeout promises, and every pending generateStorySegment,
\* verifySegment and evaluateStory call resolves or rejects.  The operator
\* is under no obligation to start or to reset.
NextSettling ==
  \/ HandleReset
  \/ \E r \in RunIds : StartRun(r)
  \/ \E r \in RunIds : Plan(r, <<1, 2>>)
  \/ \E r \in RunIds, t \in { "" } \cup { GeneratedTexts[k] : k \in 1..Len(GeneratedTexts) } :
       GenerateReturns(r, t)
  \/ \E r \in RunIds : GenerateThrows(r)
  \/ \E r \in RunIds, v \in VerifierResponses : VerifyReturns(r, v)
  \/ \E r \in RunIds : RetryWakes(r)
  \/ \E r \in RunIds : EvaluateReturns(r)

SettlingSpec ==
  /\ Init
  /\ [][NextSettling]_vars
  /\ \A r \in RunIds :
       /\ WF_vars(Plan(r, <<1, 2>>))
       /\ WF_vars(GenerateThrows(r) \/ \E k \in 1..Len(GeneratedTexts) :
                                         GenerateReturns(r, GeneratedTexts[k]))
       /\ WF_vars(\E v \in VerifierResponses : VerifyReturns(r, v))
       /\ WF_vars(RetryWakes(r))
       /\ WF_vars(EvaluateReturns(r))

\* One Dynamic Mode run of LongStoryLength positions on the default model
\* whose every segment is verified at the first attempt.
InitLong ==
  /\ isRunning = FALSE
  /\ isEvaluating = FALSE
  /\ steps = << >>
  /\ storyLength = LongStoryLength
  /\ trajectory = "DEFAULT"
  /\ activeArchetype = NoArchetype
  /\ datasetStats = "null"
  /\ currentEvent = "Introduction"
  /\ statusMessage = "System Idle. Ready."
  /\ evaluationResult = "null"
  /\ abortControllerRef = {}
  /\ run = [ r \in RunSlots |-> IdleRun ]
  /\ mine = IdleMine
  /\ sel = NoCall

NextLong ==
  \/ \E r \in RunIds : StartRun(r)
  \/ \E r \in RunIds, rnd \in LongRunDraws : Plan(r, rnd)
  \/ \E r \in RunIds : GenerateReturns(r, GeneratedTexts[1])
  \/ \E r \in RunIds : VerifyReturns(r, "match")
  \/ \E r \in RunIds : EvaluateReturns(r)

LongRunSpec == InitLong /\ [][NextLong]_vars

\* Two invocations: the operator resets while a run waits for an external
\* call and starts the next run before the first has returned.
NextOverlap ==
  \/ HandleReset
  \/ \E r \in RunSlots : StartRun(r)
  \/ \E r \in RunSlots : Plan(r, <<0, 1>>)
  \/ \E r \in RunSlots : GenerateReturns(r, GeneratedTexts[1])
  \/ \E r \in RunSlots : VerifyReturns(r, "match")
  \/ \E r \in RunSlots : EvaluateReturns(r)

OverlapSpec == Init /\ [][NextOverlap]_vars

\* The Selector called on its own with arguments drawn from AppCalls and
\* DynamicCalls.
InitSampler ==
  /\ isRunning = FALSE
  /\ isEvaluating = FALSE
  /\ steps = << >>
  /\ storyLength = MaxStoryLength
  /\ trajectory = "DEFAULT"
  /\ activeArchetype = NoArchetype
  /\ datasetStats = "null"
  /\ currentEvent = "Introduction"
  /\ statusMessage = "System Idle. Ready."
  /\ evaluationResult = "null"
  /\ abortControllerRef = {}
  /\ run = [ r \in RunSlots |-> IdleRun ]
  /\ mine = IdleMine
  /\ sel \in AppCalls \cup DynamicCalls

NextSampler == AppSelects \/ DynamicSelects

SamplerSpec == InitSampler /\ [][NextSampler]_vars

\* ------------------------------------------------------------------------
\* Properties
\* ------------------------------------------------------------------------
\* A position has been planned and is not committed yet.
Planned(r) == run[r].pc \in { "generate", "verify", "retry" }

\* The run begins an external call in this step.
BeginsCall(r) ==
  /\ run'[r].pc \in { "generate", "verify", "evaluate" }
  /\ run'[r].pc # run[r].pc

\* The signal of the run is raised in this step.
Cancelled(r) == ~run[r].aborted /\ run'[r].aborted

\* C1: for every position of every run the coordinator issues at most
\* MAX_RETRIES + 1 generate calls and at most MAX_RETRIES + 1 verify calls
\* before the position is committed.
C1_RetryBound ==
  \A r \in RunIds :
    /\ run[r].genCalls <= MAX_RETRIES + 1
    /\ run[r].verCalls <= MAX_RETRIES + 1

\* A position that used every attempt: three generate and three verify calls.
C1_Witness ==
  \E r \in RunIds :
    /\ run[r].pc = "retry"
    /\ run[r].genCalls = MAX_RETRIES + 1
    /\ run[r].verCalls = MAX_RETRIES + 1

\* C2: for a position >= 1 the Selector never returns a label whose required
\* predecessor is absent from the committed history, nor a label whose
\* occurrences in the committed history have reached its maxOccurrences.
C2_HardGatesNeverSelected ==
  \A r \in RunIds :
    (Planned(r) /\ run[r].step >= 1 /\ run[r].nextEvent \in EventType)
      => /\ ~RequirementUnmet(run[r].nextEvent, run[r].generatedSteps)
         /\ ~OccurrencesExhausted(run[r].nextEvent, run[r].generatedSteps)

StopsOnSignal(r) ==
  /\ run[r].aborted
  /\ run[r].pc \in { "plan", "verify", "retry" }
  /\ run'[r].pc = "done"
  /\ statusMessage' # "Error"

C6_CommitAnyway ==
  [][ \A r \in RunIds :
        ( /\ run[r].pc = "retry"
          /\ run[r].retryCount > MAX_RETRIES
          /\ run'[r].pc # "retry" )
        => /\ steps' = Append(steps,
                         [ stepIndex |-> run[r].step,
                           selectedEvent |-> run[r].nextEvent,
                           generatedText |-> run[r].text,
                           verified |-> FALSE,
                           retryCount |-> MAX_RETRIES + 1 ])
           /\ run[r].genCalls = MAX_RETRIES + 1
           /\ run[r].text \in GeneratorResults(MAX_RETRIES + 1)
           /\ (~run[r].aborted /\ run[r].step + 1 < run[r].storyLength)
                => /\ run'[r].pc = "plan"
                   /\ run'[r].step = run[r].step + 1
                   /\ Len(run'[r].generatedSteps) = run[r].step + 1 ]_vars

\* A run that went on to position 1 after committing position 0 unverified
\* with the third attempt's text.
C6_Witness ==
  \E r \in RunIds :
    /\ run[r].pc = "plan"
    /\ run[r].step = 1
    /\ run[r].generatedSteps[1].verified = FALSE
    /\ run[r].generatedSteps[1].generatedText = GeneratedTexts[MAX_RETRIES + 1]
    /\ Len(steps) = 1

\* The archetype entry of the position the run has planned exists.
HasOverrideEntry(r) ==
  /\ run[r].archetype # NoArchetype
  /\ run[r].step + 1 \in DOMAIN run[r].archetype.sequence

\* The labels Dynamic Mode can return for the position the run has planned.
DynamicChoices(r) ==
  { dynamicSelect(run[r].step, run[r].previousEvent,
                  TrajectoryOf(run[r].trajectory), run[r].storyLength,
                  run[r].generatedSteps, rnd) : rnd \in RandomDraws }

\* C7: with an override set, at every position p >= 1 for which
\* override.sequence[p] exists the Selector returns override.sequence[p],
\* whatever the model, the constraints and the history; where the index does
\* not exist it returns the Dynamic Mode choice.
C7_OverrideFollowed ==
  \A r \in RunIds :
    (Planned(r) /\ run[r].step >= 1 /\ run[r].archetype # NoArchetype)
      => IF HasOverrideEntry(r)
           THEN run[r].nextEvent = run[r].archetype.sequence[run[r].step + 1]
           ELSE run[r].nextEvent \in DynamicChoices(r)

\* The override dictates Conflict at position 1 although the constraint
\* layer gates it (no Rising_Action in the history).
C7_Witness ==
  \E r \in RunIds :
    /\ Planned(r)
    /\ run[r].step = 1
    /\ HasOverrideEntry(r)
    /\ run[r].nextEvent = "Conflict"
    /\ RequirementUnmet("Conflict", run[r].generatedSteps)

\* C8 as claimed: the label planned and committed at position 0 of every
\* run is Introduction, with or without an override.
C8_StartsWithIntroduction ==
  \A r \in RunIds :
    /\ (Planned(r) /\ run[r].step = 0) => run[r].nextEvent = "Introduction"
    /\ Len(run[r].generatedSteps) >= 1
         => run[r].generatedSteps[1].selectedEvent = "Introduction"

\* C8 as amended: the label planned and committed at position 0 is
\* Introduction when no override is set and override.sequence[0] when one is.
C8_StartLabel ==
  \A r \in RunIds :
    LET expected == IF run[r].archetype = NoArchetype
                      THEN "Introduction"
                      ELSE sequenceAt(run[r].archetype, 0)
    IN  /\ (Planned(r) /\ run[r].step = 0) => run[r].nextEvent = expected
        /\ Len(run[r].generatedSteps) >= 1
             => run[r].generatedSteps[1].selectedEvent = expected

\* A run under an override that committed the override's first label,
\* Dialogue, at position 0.
C8_Witness ==
  \E r \in RunIds :
    /\ run[r].archetype # NoArchetype
    /\ Len(run[r].generatedSteps) >= 1
    /\ run[r].generatedSteps[1].selectedEvent = "Dialogue"
    /\ steps[1].selectedEvent = "Dialogue"

\* Dynamic Mode decides the position the run has planned.
DynamicApplies(r) ==
  /\ run[r].step >= 1
  /\ ~HasOverrideEntry(r)
  /\ run[r].previousEvent \in EventType

\* The row and the adjusted entries of the position the run has planned.
RowOf(r) ==
  getMatrixForStep(run[r].step, run[r].storyLength,
                   TrajectoryOf(run[r].trajectory))[run[r].previousEvent]

EntriesOf(r) ==
  adjustedEntries(RowOf(r), run[r].previousEvent, run[r].step,
                  run[r].storyLength, run[r].generatedSteps)

\* The total adjusted weight of the row is <= 1e-4.
RowExhausted(r) == BelowEpsilon(totalWeight(EntriesOf(r)), RowTotal(RowOf(r)))

\* The label at index i is the first of the alphabet with a positive weight.
FirstPositive(weights, i) ==
  /\ weights[EVENT_TYPES[i]] > 0
  /\ \A j \in 1..(i - 1) : weights[EVENT_TYPES[j]] = 0

\* C9 as claimed: when the total adjusted weight is <= 1e-4 the Selector
\* returns the first label in alphabet order whose original probability is
\* strictly positive, or the safety label if there is none.
C9_FallbackByOriginalWeight ==
  \A r \in RunIds :
    (Planned(r) /\ DynamicApplies(r) /\ RowExhausted(r))
      => \/ \E i \in 1..Len(EVENT_TYPES) :
              FirstPositive(RowOf(r), i) /\ run[r].nextEvent = EVENT_TYPES[i]
         \/ /\ \A e \in EventType : RowOf(r)[e] = 0
            /\ run[r].nextEvent = "Rising_Action"

\* C9 as amended: when the total adjusted weight is <= 1e-4 the Selector
\* returns, without raising, the first label in alphabet order whose
\* adjusted weight is strictly positive, or the safety label Rising_Action
\* if no label has a positive adjusted weight.
C9_FallbackByAdjustedWeight ==
  \A r \in RunIds :
    (Planned(r) /\ DynamicApplies(r) /\ RowExhausted(r))
      => \/ \E i \in 1..Len(EVENT_TYPES) :
              FirstPositive(EntriesOf(r), i) /\ run[r].nextEvent = EVENT_TYPES[i]
         \/ /\ \A e \in EventType : EntriesOf(r)[e] = 0
            /\ run[r].nextEvent = "Rising_Action"

\* The fallback returned Dialogue, the only label with a positive adjusted
\* weight, although Introduction has a positive original probability.
C9_Witness ==
  \E r \in RunIds :
    /\ Planned(r) /\ DynamicApplies(r) /\ RowExhausted(r)
    /\ RowOf(r)["Introduction"] > 0
    /\ run[r].nextEvent = "Dialogue"

\* Dynamic Mode is about to select with an unadjusted probability > 0 of
\* repeating the previous label.
SelfLoopPossible(r) ==
  /\ run[r].pc = "plan"
  /\ DynamicApplies(r)
  /\ RowOf(r)[run[r].previousEvent] > 0

\* C10 as claimed: whenever the unadjusted probability of the previous label
\* is > 0, the probability with which Dynamic Mode repeats it (its adjusted
\* weight normalized over the row) is strictly less than that probability.
C10_NormalizedSelfLoopLower ==
  \A r \in RunIds :
    (SelfLoopPossible(r) /\ ~RowExhausted(r))
      => EntriesOf(r)[run[r].previousEvent] * RowTotal(RowOf(r))
           < RowOf(r)[run[r].previousEvent] * totalWeight(EntriesOf(r))

\* C10 as amended: whenever the unadjusted probability of the previous label
\* is > 0, its adjusted weight before normalization is strictly less than
\* that probability (at most 0.3 of it).
C10_AdjustedSelfLoopLower ==
  \A r \in RunIds :
    SelfLoopPossible(r)
      => /\ EntriesOf(r)[run[r].previousEvent]
              < originalProb(RowOf(r), run[r].previousEvent)
         /\ EntriesOf(r)[run[r].previousEvent] * FactorDen
              <= originalProb(RowOf(r), run[r].previousEvent) * SELF_LOOP_FACTOR

\* Dynamic Mode is about to select after Dialogue, whose self loop is
\* dampened and not gated.
C10_Witness ==
  \E r \in RunIds :
    /\ SelfLoopPossible(r)
    /\ run[r].previousEvent = "Dialogue"
    /\ EntriesOf(r)["Dialogue"] > 0

\* The run r planned a Dynamic Mode position while the trajectory state
\* differs from the one the run was started with.
ReplacedInFlight(r) ==
  /\ Planned(r)
  /\ run[r].step >= 1
  /\ ~HasOverrideEntry(r)
  /\ run[r].trajectory # trajectory

\* C11: a run in flight keeps reading the model it was started with when the
\* TrajectoryModel is replaced.  The model of a run is the one that is
\* current when it starts, it does not change while the run is in flight,
\* and every label and hint planned in Dynamic Mode come from it.
C11_RunReadsItsOwnModel ==
  [][\A r \in RunIds :
       /\ (~InFlight(r) /\ InFlight(r)') => run'[r].trajectory = trajectory
       /\ (InFlight(r) /\ InFlight(r)') => run'[r].trajectory = run[r].trajectory
       /\ (run[r].pc = "plan" /\ Planned(r)' /\ run[r].step >= 1 /\ ~HasOverrideEntry(r))
            => /\ run'[r].nextEvent \in DynamicChoices(r)
               /\ run'[r].foreshadowEvent =
                    getMostLikelyNextEvent(run[r].step, run'[r].nextEvent,
                                           TrajectoryOf(run[r].trajectory),
                                           run[r].storyLength, run[r].archetype)]_vars

\* A run started with the saved model planned a label of the saved model
\* after a training had completed and replaced the trajectory state.
C11_Witness ==
  \E r \in RunIds :
    /\ ReplacedInFlight(r)
    /\ run[r].trajectory = "SAVED"
    /\ trajectory = "LEARNED"
    /\ run[r].nextEvent \in DynamicChoices(r)

\* The step changes what the rest of the program reads of a mining: the
\* trajectory, the dataset statistics or the published result.
PublishedChanges ==
  \/ trajectory' # trajectory
  \/ datasetStats' # datasetStats
  \/ mine'.result # mine.result

\* The status messages of the catch of runTrainingProcess.
TrainingFailures == { "Training failed: Invalid format.", "Training failed: TypeError" }

\* The step settles the mining the miner was working on.
MiningResolves == mine.pc = "classify" /\ mine'.pc = "done"
MiningRejects == mine.pc = "classify" /\ mine'.pc = "idle"

\* C12: the results of a mining are published only at its successful end and
\* then the TrajectoryModel and the DatasetStats together; while the miner
\* works and when the mining fails both stay as they were.
C12_PublishedOnlyOnSuccess ==
  [][/\ (mine'.pc = "classify" \/ MiningRejects \/ statusMessage' \in TrainingFailures)
          => ~PublishedChanges
     /\ mine'.result # mine.result
          => /\ mine'.pc = "done"
             /\ trajectory' = "LEARNED"
             /\ datasetStats' = "LEARNED_STATS"
             /\ mine'.result.count = Len(mine'.storiesToProcess)
     /\ (trajectory' = "LEARNED") <=> (datasetStats' = "LEARNED_STATS")]_vars

\* A mining of a corpus of MaxCorpusSegments usable segments has resolved and
\* its model and its statistics are the current ones.
C12_Witness ==
  /\ mine.pc = "done"
  /\ mine.result.count >= 1
  /\ Len(mine.result.binTransitions) = MaxCorpusSegments
  /\ trajectory = "LEARNED"
  /\ datasetStats = "LEARNED_STATS"
  /\ statusMessage = "Training complete."

\* A TrajectoryModel as getMatrixForStep reads it: at least one bin, every
\* bin a matrix with a row of every label.
WellFormedTrajectory(t) ==
  /\ Len(t) >= 1
  /\ \A b \in 1..Len(t) : DOMAIN t[b] = EventType

\* C13 as claimed: a loaded record replaces the TrajectoryModel and the
\* DatasetStats only if its type discriminator matches and the record is
\* well-formed, so after "Model Loaded" the trajectory is a well-formed
\* TrajectoryModel.
C13_LoadedModelWellFormed ==
  statusMessage = "Model Loaded" => WellFormedTrajectory(TrajectoryOf(trajectory))

\* The slot the miner waits on answers what: a label, "Hallucinated" or
\* "error".
PendingAnswer == mine.storiesToProcess[mine.i][mine.step + 1]

\* The path of the story the miner waits on is path after the step: either
\* the story goes on with it, or the story is finished and the path counted.
PathBecomes(path) ==
  IF mine'.pc = "classify" /\ mine'.i = mine.i
    THEN mine'.currentPath = path
    ELSE \E k \in 1..Len(mine'.pathFrequency) : mine'.pathFrequency[k].key = path

\* A record of the sample after story i has no text field: entering it
\* throws outside the try block of the segments.
NoTextAfter(i) ==
  \E j \in (i + 1)..Len(mine.storiesToProcess) : mine.storiesToProcess[j] = NoTextRecord

\* C14: a classifier answer outside the alphabet is recorded in the story's
\* path as Description and a classifier call that errors as Rising_Action;
\* the miner then goes on with a later segment or resolves with a published
\* result (it is rejected only by a later record without text, never by
\* the segment).
C14_SegmentFailureNeverAborts ==
  [][mine.pc = "classify"
       => IF mine'.pc \notin { "classify", "done" }
            THEN NoTextAfter(mine.i)
            ELSE /\ PendingAnswer = "Hallucinated"
                      => PathBecomes(Append(mine.currentPath, "Description"))
                 /\ PendingAnswer = "error"
                      => PathBecomes(Append(mine.currentPath, "Rising_Action"))
                 /\ PendingAnswer \in EventType
                      => PathBecomes(Append(mine.currentPath, PendingAnswer))
                 /\ mine'.pc = "classify"
                      => \/ mine'.i > mine.i
                         \/ mine'.i = mine.i /\ mine'.step > mine.step
                 /\ mine'.pc = "done"
                      => /\ trajectory' = "LEARNED"
                         /\ statusMessage' = "Training complete."
                         /\ mine'.result.count = Len(mine.storiesToProcess)]_vars

\* A mining resolved with a path made of an answer outside the alphabet and
\* of a call that threw.
C14_Witness ==
  /\ mine.pc = "done"
  /\ trajectory = "LEARNED"
  /\ \E k \in 1..Len(mine.result.discoveredPaths) :
       mine.result.discoveredPaths[k].sequence = << "Description", "Rising_Action" >>

\* The label the step records in the path for the pending answer.
RecordedLabel ==
  CASE PendingAnswer = "error"    -> "Rising_Action"
    [] PendingAnswer \in EventType -> PendingAnswer
    [] OTHER                       -> "Description"

\* The label immediately before the pending segment in the story's path.
LabelBefore ==
  IF mine.currentPath = << >> THEN "Introduction"
  ELSE mine.currentPath[Len(mine.currentPath)]

\* C15 as claimed: for every segment that contributes a label to the path
\* of its story the miner counts exactly one transition, from the label
\* immediately before it in the path (Introduction for the first) to that
\* label, in the bin of the segment's position.
C15_EveryPathLabelCounted ==
  [][(mine.pc = "classify" /\ mine'.pc \in { "classify", "done" })
       => mine'.binTransitions =
            Append(mine.binTransitions,
                   << binOfStep(mine.step), LabelBefore, RecordedLabel >>)]_vars

\* The label sequence a story produces: one label per usable segment.
RECURSIVE producedPath(_)
producedPath(story) ==
  IF story = << >> THEN << >>
  ELSE LET slot == Head(story)
           rest == producedPath(Tail(story))
       IN  CASE slot = "short"       -> rest
             [] slot = "error"       -> << "Rising_Action" >> \o rest
             [] slot \in EventType   -> << slot >> \o rest
             [] OTHER                -> << "Description" >> \o rest

\* The stories of the sample that produce the listed sequence.
Producing(stories, sequence) ==
  { j \in 1..Len(stories) : splitKey(producedPath(stories[j])) = sequence }

\* The listed sequences of the sample's stories.
DistinctPaths(stories) ==
  { splitKey(producedPath(stories[j])) : j \in 1..Len(stories) }

Published == mine.pc = "done" /\ datasetStats = "LEARNED_STATS"

C17_NoUsableSegmentPublishesNothing ==
  Published =>
    \E j \in 1..Len(mine.storiesToProcess) :
      producedPath(mine.storiesToProcess[j]) # << >>

\* The step calls evaluateStory for run r.
CallsEvaluator(r) == run'[r].evalCalls > run[r].evalCalls

\* The step commits the last position of run r.
CommitsLast(r) ==
  /\ InFlight(r)
  /\ Len(run[r].generatedSteps) = run[r].storyLength - 1
  /\ Len(steps') = Len(steps) + 1

\* C18: the evaluator is called exactly once in a run that commits all L
\* positions without cancellation, in the step of the L-th commit and over
\* exactly the L committed steps; it is never called in a run that was
\* cancelled before all L positions were committed.
C18_EvaluatedOncePerCompletedRun ==
  [][\A r \in RunIds :
       /\ CallsEvaluator(r)
            => /\ run[r].evalCalls = 0 /\ run'[r].evalCalls = 1
               /\ CommitsLast(r)
               /\ ~run[r].aborted
               /\ run'[r].pc = "evaluate"
               /\ Len(run'[r].generatedSteps) = run[r].storyLength
               /\ SubSeq(run'[r].generatedSteps, 1, run[r].storyLength - 1)
                    = run[r].generatedSteps
       /\ (CommitsLast(r) /\ ~run[r].aborted) => CallsEvaluator(r)
       /\ run[r].aborted => ~CallsEvaluator(r)
       /\ run[r].pc = "evaluate"
            => /\ ~CallsEvaluator(r)
               /\ run'[r].pc \in { "evaluate", "done", "idle" }]_vars

\* A run that was never cancelled has committed all its positions and waits
\* for the evaluator it has called once.
C18_Witness ==
  \E r \in RunIds :
    /\ run[r].pc = "evaluate"
    /\ run[r].evalCalls = 1
    /\ ~run[r].aborted
    /\ Len(run[r].generatedSteps) = run[r].storyLength
    /\ run[r].storyLength = MaxStoryLength

\* The row of the label planned for the position of run r in the matrix of
\* the next position.
NextRowOf(r) ==
  getMatrixForStep(run[r].step + 1, run[r].storyLength,
                   TrajectoryOf(run[r].trajectory))[run[r].nextEvent]

\* e has the highest probability of the row and is the earliest such label
\* in alphabet order.
EarliestLargest(row, e) ==
  \E i \in 1..Len(EVENT_TYPES) :
    /\ EVENT_TYPES[i] = e
    /\ \A j \in 1..Len(EVENT_TYPES) : row[EVENT_TYPES[j]] <= row[e]
    /\ \A j \in 1..(i - 1) : row[EVENT_TYPES[j]] < row[e]

\* The hint of a planned position as the claim describes it.
HintIsArgmax(r) ==
  IF run[r].step >= run[r].storyLength - 1
    THEN run[r].foreshadowEvent = Undefined
    ELSE /\ run[r].nextEvent \in EventType
         /\ EarliestLargest(NextRowOf(r), run[r].foreshadowEvent)

\* C19 as claimed: in every planning mode the hint is the label with the
\* highest probability in the planned label's row of the matrix for the
\* next position, the earliest in alphabet order among equals, and none at
\* the final position L-1.
C19_HintIsArgmaxInEveryMode ==
  \A r \in RunIds : Planned(r) => HintIsArgmax(r)

\* C19 as amended: in Dynamic Mode (no override path set) the hint is the
\* label with the highest probability in the planned label's row of the
\* matrix for the next position, the earliest in alphabet order among
\* equals, and none at the final position L-1; with an override path set it
\* is the entry of the path at the next position, whatever the model says,
\* and none exactly when the path has no entry there.
C19_HintByMode ==
  \A r \in RunIds :
    Planned(r) =>
      IF run[r].archetype = NoArchetype
        THEN HintIsArgmax(r)
        ELSE run[r].foreshadowEvent = sequenceAt(run[r].archetype, run[r].step + 1)

\* Dynamic Mode planned Dialogue before the final position: Rising_Action
\* and Conflict are the largest entries of its row and the hint is
\* Rising_Action, the earlier one.
C19_Witness ==
  \E r \in RunIds :
    /\ Planned(r)
    /\ run[r].archetype = NoArchetype
    /\ run[r].step < run[r].storyLength - 1
    /\ run[r].nextEvent = "Dialogue"
    /\ NextRowOf(r)["Conflict"] = NextRowOf(r)["Rising_Action"]
    /\ run[r].foreshadowEvent = "Rising_Action"

\* The run r is about to select the label of a position in Dynamic Mode.
SelectsDynamically(r) == run[r].pc = "plan" /\ DynamicApplies(r)

\* The label e occurs in the history.
Occurred(history, e) == \E i \in 1..Len(history) : history[i].selectedEvent = e

\* How many positions back the most recent occurrence of e is: the number
\* of history entries after it, 0 for the last entry of the history.
PositionsBack(history, e) ==
  Cardinality({ i \in 1..Len(history) :
                  \A j \in i..Len(history) : history[j].selectedEvent # e })

\* The adjusted weight of e without the cooldown: 0 behind a hard gate, else
\* the row's weight with the self-loop factor.
WeightBeforeCooldown(r, e) ==
  IF \/ RequirementUnmet(e, run[r].generatedSteps)
     \/ OccurrencesExhausted(e, run[r].generatedSteps)
     \/ TooEarly(e, run[r].step, run[r].storyLength)
    THEN 0
    ELSE RowOf(r)[e] * SelfLoopNum(e, run[r].previousEvent)

\* C20: for a label with cooldown c the adjusted weight is multiplied by
\* 0.1 exactly when the label's most recent occurrence in the history is
\* fewer than c positions back (the last entry of the history counting as 0
\* positions back); a label whose most recent occurrence is c or more
\* positions back, or that never occurred, or that has no cooldown, is not
\* dampened, and the cooldown alone never reduces a positive weight to 0.
C20_CooldownDampening ==
  \A r \in RunIds :
    SelectsDynamically(r) =>
      \A e \in EventType :
        LET history  == run[r].generatedSteps
            dampened == \E c \in GLOBAL_CONSTRAINTS[e].cooldown :
                          Occurred(history, e) /\ PositionsBack(history, e) < c
        IN  /\ EntriesOf(r)[e] =
                 WeightBeforeCooldown(r, e)
                   * (IF dampened THEN COOLDOWN_FACTOR ELSE FactorDen)
            /\ WeightBeforeCooldown(r, e) > 0 => EntriesOf(r)[e] > 0

\* Dynamic Mode is about to select after [Inciting_Incident, Rising_Action]:
\* Rising_Action (cooldown 1) is the last entry, its weight is positive and
\* dampened; Inciting_Incident has no cooldown and Description (cooldown 2)
\* never occurred.
C20_Witness ==
  \E r \in RunIds :
    /\ SelectsDynamically(r)
    /\ Len(run[r].generatedSteps) = 2
    /\ run[r].generatedSteps[1].selectedEvent = "Inciting_Incident"
    /\ run[r].generatedSteps[2].selectedEvent = "Rising_Action"
    /\ WeightBeforeCooldown(r, "Rising_Action") > 0
    /\ EntriesOf(r)["Rising_Action"] * FactorDen
         = WeightBeforeCooldown(r, "Rising_Action") * COOLDOWN_FACTOR * FactorDen
    /\ EntriesOf(r)["Description"] = WeightBeforeCooldown(r, "Description") * FactorDen

\* C21: a generate attempt that returns the empty string is never committed
\* as verified: no committed step, displayed or in a run's own history, has
\* an empty text and verified = true.
C21_EmptyTextNeverVerified ==
  /\ \A i \in 1..Len(steps) :
       steps[i].generatedText = "" => ~steps[i].verified
  /\ \A r \in RunIds : \A i \in 1..Len(run[r].generatedSteps) :
       run[r].generatedSteps[i].generatedText = ""
         => ~run[r].generatedSteps[i].verified

\* The adjusted row of a returned call of the current selector, its total
\* and the row before adjustment.
CallMarkovRow ==
  getMatrixForStep(Len(sel.history), storyLength, TrajectoryOf(trajectory))[sel.prevEvent]

CallAdjustedRow ==
  adjustedEntries(CallMarkovRow, sel.prevEvent, Len(sel.history), storyLength, sel.history)

\* The row is sampled: its total adjusted weight is above the epsilon.
CallSampled ==
  ~BelowEpsilon(RowTotal(CallAdjustedRow), RowTotal(CallMarkovRow))

\* The cumulative probability through the i-th label of the alphabet is at
\* least the draw.
DynamicQualifies(i) ==
  sel.r[1] * RowTotal(CallAdjustedRow) <= sel.r[2] * SumRow(CallAdjustedRow, i)

\* The adjusted weight of the i-th entry of a call of the first App version,
\* in twentieths, and the cumulative probability test.
AppWeightOf(i) ==
  IF sel.entries[i][1] = sel.prevEvent THEN sel.entries[i][2] ELSE 2 * sel.entries[i][2]

AppQualifies(i) ==
  LET total == AppWeightOf(1) + AppWeightOf(2) + AppWeightOf(3)
      upTo  == IF i = 1 THEN AppWeightOf(1)
               ELSE IF i = 2 THEN AppWeightOf(1) + AppWeightOf(2)
               ELSE total
  IN  total > 0 /\ sel.r[1] * total <= sel.r[2] * upTo

\* Scenario A: row A -> {A: 0.1, B: 0.8, C: 0.1}, previous label A, draw 0.9.
ScenarioA ==
  /\ sel.pc = "returned"
  /\ sel.fn = "App"
  /\ sel.entries = << <<"A", 1>>, <<"B", 8>>, <<"C", 1>> >>
  /\ sel.prevEvent = "A"
  /\ sel.r = <<9, 10>>

\* C22: a sampled row is walked in the fixed order and the result is the
\* first label whose cumulative probability is at least the draw, the last
\* label if none qualifies; scenario A with the draw 0.9 returns C.
C22_FirstLabelReachingTheDraw ==
  /\ (sel.pc = "returned" /\ sel.fn = "Dynamic" /\ CallSampled) =>
       \/ \E i \in 1..Len(EVENT_TYPES) :
            /\ sel.result = EVENT_TYPES[i]
            /\ DynamicQualifies(i)
            /\ \A j \in 1..(i - 1) : ~DynamicQualifies(j)
       \/ /\ sel.result = EVENT_TYPES[Len(EVENT_TYPES)]
          /\ \A j \in 1..Len(EVENT_TYPES) : ~DynamicQualifies(j)
  /\ (sel.pc = "returned" /\ sel.fn = "App") =>
       \/ \E i \in 1..3 :
            /\ sel.result = SCENARIO_LABELS[i]
            /\ AppQualifies(i)
            /\ \A j \in 1..(i - 1) : ~AppQualifies(j)
       \/ /\ sel.result = SCENARIO_LABELS[3]
          /\ \A j \in 1..3 : ~AppQualifies(j)
  /\ ScenarioA => sel.result = "C"

\* Scenario A has returned with the draw 0.9 and the label C.
C22_Witness == ScenarioA /\ sel.result = "C"

C24_VerifierErrorNeverVerifies ==
  [][ \A r \in RunIds :
        VerifyReturns(r, "error") =>
          ~(/\ Len(steps') = Len(steps) + 1
            /\ steps'[Len(steps')].verified) ]_vars

\* C25: the retry count of every committed step is at most MAX_RETRIES and
\* is the number of generate calls issued for its position minus one.
C25_RetryCountIsAttemptsMinusOne ==
  [][ \A r \in RunIds :
        (InFlight(r) /\ Len(steps') = Len(steps) + 1) =>
          /\ steps'[Len(steps')].retryCount <= MAX_RETRIES
          /\ steps'[Len(steps')].retryCount = run[r].genCalls - 1 ]_vars

C27_OverrideIsCurrentPath ==
  activeArchetype # NoArchetype =>
    \E i \in 1..Len(discoveredPaths(datasetStats)) :
      discoveredPaths(datasetStats)[i] = activeArchetype

\* C28: every discovered path of a mined model is a non-empty sequence of
\* labels of the alphabet.
C28_PathsOverAlphabet ==
  \A i \in 1..Len(mine.result.discoveredPaths) :
    LET sequence == mine.result.discoveredPaths[i].sequence
    IN  /\ Len(sequence) >= 1
        /\ \A j \in 1..Len(sequence) : sequence[j] \in EventType

\* The run ends in this step.
Ends(r) == InFlight(r) /\ run'[r].pc = "done"

\* The run ends complete: the evaluator returns after storyLength commits.
EndsComplete(r) ==
  /\ run[r].pc = "evaluate"
  /\ Len(run[r].generatedSteps) = run[r].storyLength
  /\ statusMessage' = "Protocol Complete."

\* C29 as stated: every started run eventually ends and the running flag
\* returns to false, and a run ends either complete after exactly L commits
\* or stopped by cancellation.
C29_EndsCompleteOrCancelled ==
  /\ \A r \in RunIds : InFlight(r) ~> ~InFlight(r)
  /\ isRunning ~> ~isRunning
  /\ [][ \A r \in RunIds : Ends(r) => (EndsComplete(r) \/ run[r].aborted) ]_vars

\* C29: every started run eventually ends and the running flag returns to
\* false; a run ends complete after exactly L commits, stopped by
\* cancellation or with the error of a rejected call, the flag is false when
\* it has ended, and no position gets more than MAX_RETRIES + 1 attempts.
C29_EveryRunEnds ==
  /\ \A r \in RunIds : InFlight(r) ~> ~InFlight(r)
  /\ isRunning ~> ~isRunning
  /\ [][ \A r \in RunIds :
           /\ Ends(r) => /\ \/ EndsComplete(r)
                            \/ run[r].aborted
                            \/ statusMessage' = "Error"
                         /\ ~isRunning'
           /\ run'[r].genCalls <= MAX_RETRIES + 1 ]_vars

\* A run has ended complete: storyLength steps are displayed with their
\* evaluation, the last of them committed after every retry.
C29_Witness ==
  /\ \E r \in RunIds : run[r].pc = "done" /\ ~run[r].aborted
  /\ Len(steps) = storyLength
  /\ evaluationResult = "evaluation"
  /\ steps[Len(steps)].retryCount = MAX_RETRIES + 1
  /\ ~isRunning

\* C30: once Story_End has been committed in a Dynamic Mode run on the
\* default model, every later position of the run commits Story_End.
C30_StoryEndAbsorbing ==
  \A r \in RunIds : \A i \in 1..Len(run[r].generatedSteps) :
    \A j \in (i + 1)..Len(run[r].generatedSteps) :
      run[r].generatedSteps[i].selectedEvent = "Story_End"
        => run[r].generatedSteps[j].selectedEvent = "Story_End"

TypeOK ==
  /\ isRunning \in BOOLEAN
  /\ storyLength \in 1..MaxStoryLength \cup { LongStoryLength }
  /\ \A r \in RunSlots : run[r].retryCount \in 0..(MAX_RETRIES + 1)
====
